---- MODULE Spec2Model ----
(***************************************************************************)
(* Model of package backoff (scnewma/backoff, backoff.go): the delay       *)
(* generator Iter and the retry driver Retry / RetryWithContext.           *)
(*                                                                         *)
(* Numbers.  A time.Duration is a signed integer of DurationBits bits      *)
(* counting ticks, the smallest duration (int64 nanoseconds in the         *)
(* program).  The width is scaled down and with it the number of ticks in  *)
(* a millisecond, which stays a multiple of 16 and of 10, so that the      *)
(* products of the millisecond-valued delays with the multipliers and the  *)
(* jitter factors used here stay whole, as they do in the program.         *)
(* A float64 is a rational <<n, d>> with d > 0 (NaN and the infinities     *)
(* are not among the arguments).  float64(delay) rounds the integer to the *)
(* mantissa, which is narrower than the integer; the products and sums of  *)
(* Iter are then carried out exactly.  The conversion back to              *)
(* time.Duration truncates toward zero and, when the value does not fit    *)
(* the integer type, yields the value the target architecture produces     *)
(* (the Go specification leaves it to the implementation).                 *)
(***************************************************************************)
EXTENDS Integers, Sequences, FiniteSets, TLC

VARIABLES
    goarch,        \* architecture the program was built for
    api,           \* entry point in use: "Iter", "Retry" or "RetryWithContext"
    pc,            \* position of the (single) thread of control
    cfg,           \* the *config the iter.Seq closure captured
    delay,         \* Iter: the tracked, unjittered delay
    attempt,       \* Iter: the loop counter
    currentDelay,  \* Iter: the value handed to yield
    yields,        \* number of calls of yield so far
    want,          \* range consumer: number of elements after which it breaks
    count,         \* range consumer: number of elements received
    ctxKind,       \* the context: "Background", "WithCancel" or "WithTimeout"
    ctxErr,        \* ctx.Err(): "nil" until the context is done
    ctxDoneAt,     \* pc at which the context became done ("never" until then)
    callsAtDone,   \* number of invocations of fn made by then
    calls,         \* number of invocations of fn
    lastErr,       \* RetryWithContext: lastErr
    result,        \* RetryWithContext: result
    ret,           \* what RetryWithContext returned
    cfg0,          \* history: the config as Iter built it
    waits,         \* history: number of waits ended by the timer
    exit,          \* history: the return statement taken ("" until then)
    sessions,      \* two goroutines: the locals of each one's call
    configs,       \* two goroutines: the config objects their Iter calls made
    closure        \* an Option value both goroutines apply: its captured variable

vars == <<goarch, api, pc, cfg, delay, attempt, currentDelay, yields, want,
          count, ctxKind, ctxErr, ctxDoneAt, callsAtDone, calls, lastErr,
          result, ret, cfg0, waits, exit, sessions, configs, closure>>

pairVars == <<sessions, configs, closure>>
soloVars == <<goarch, api, pc, cfg, delay, attempt, currentDelay, yields, want,
              count, ctxKind, ctxErr, ctxDoneAt, callsAtDone, calls, lastErr,
              result, ret, cfg0, waits, exit>>
iterVars == <<delay, attempt, currentDelay, yields>>
ctxVars == <<ctxKind, ctxErr, ctxDoneAt, callsAtDone>>
fnVars == <<calls, lastErr, result, ret>>

(***************************************************************************)
(* Bounds of the model.                                                    *)
(***************************************************************************)
DurationBits == 23   \* width of time.Duration in the model
MaxOptions == 3      \* longest option list passed to Iter
MaxSteps == 4        \* most elements drawn from one sequence
RandDen == 4         \* rand.Float64() ranges over k / RandDen, k < RandDen

(***************************************************************************)
(* time.Duration and the conversions from float64.                         *)
(***************************************************************************)
RECURSIVE Pow(_, _)
Pow(b, e) == IF e = 0 THEN 1 ELSE b * Pow(b, e - 1)

MaxDuration == Pow(2, DurationBits - 1) - 1
MinDuration == -Pow(2, DurationBits - 1)

\* Ticks in time.Millisecond.
Millisecond == 80
Second == 1000 * Millisecond

\* math.MaxInt, the default of maxRetries (its value on a 32-bit target).
MaxInt == 2147483647

\* Division truncating toward zero, d > 0.
TruncDiv(n, d) == IF n >= 0 THEN n \div d ELSE -((-n) \div d)

\* time.Duration(f) for the float64 f = n / d: the fraction is discarded;
\* a value outside the integer type gives what the architecture gives:
\* amd64 the "integer indefinite" value (the minimum), arm64 the nearest
\* representable value.
DurationOfFloat(n, d) ==
    LET q == TruncDiv(n, d)
    IN  IF q >= MinDuration /\ q <= MaxDuration THEN q
        ELSE IF goarch = "amd64" THEN MinDuration
        ELSE IF q > 0 THEN MaxDuration ELSE MinDuration

\* Bits of the float64 mantissa (53 of them for a 64-bit integer).
MantissaBits == DurationBits - 4

RECURSIVE BitLen(_)
BitLen(n) == IF n = 0 THEN 0 ELSE 1 + BitLen(n \div 2)

\* float64(x) for an integer x: the nearest value with a mantissa of
\* MantissaBits bits, ties to even.
Float64(x) ==
    LET a == IF x < 0 THEN -x ELSE x
        e == BitLen(a) - MantissaBits
    IN  IF e <= 0 THEN x
        ELSE LET u == Pow(2, e)
                 q == a \div u
                 r == a % u
                 up == (2 * r > u) \/ (2 * r = u /\ q % 2 = 1)
                 m == (IF up THEN q + 1 ELSE q) * u
             IN  IF x < 0 THEN -m ELSE m

\* Go's built-in min.
Min(a, b) == IF a < b THEN a ELSE b

(***************************************************************************)
(* config and the options.  An option is modelled by the function its      *)
(* closure computes: the config after the option, given the config before. *)
(***************************************************************************)
ZeroConfig ==
    [initialDelay |-> 0, maxDelay |-> 0, multiplier |-> <<0, 1>>,
     jitterFactor |-> <<0, 1>>, maxRetries |-> 0]

\* Mutant: only a negative d is replaced.
InitialDelayNegative(d, c) ==
    [c EXCEPT !.initialDelay = IF d < 0 THEN 1 * Millisecond ELSE d]

InitialDelay(d, c) ==
    [c EXCEPT !.initialDelay = IF d <= 0 THEN 1 * Millisecond ELSE d]

MaxDelay(d, c) ==
    [c EXCEPT !.maxDelay = IF d <= 0 THEN 30 * Second ELSE d]

\* Mutant: m < 1.0
MultiplierBelowOne(m, c) ==
    [c EXCEPT !.multiplier = IF m[1] < m[2] THEN <<2, 1>> ELSE m]

\* m <= 1.0
Multiplier(m, c) ==
    [c EXCEPT !.multiplier = IF m[1] <= m[2] THEN <<2, 1>> ELSE m]

\* factor < 0
JitterFactor(factor, c) ==
    [c EXCEPT !.jitterFactor = IF factor[1] < 0 THEN <<0, 1>> ELSE factor]

MaxRetries(retries, c) ==
    [c EXCEPT !.maxRetries = IF retries < 0 THEN 0 ELSE retries]

\* Mutant: the preset starts from a fresh config and drops the retry limit.
ConstantResetsRetries(c) ==
    [c EXCEPT !.initialDelay = 1 * Second,
              !.maxDelay = 1 * Second,
              !.multiplier = <<1, 1>>,
              !.jitterFactor = <<0, 1>>,
              !.maxRetries = MaxInt]

Constant(c) ==
    [c EXCEPT !.initialDelay = 1 * Second,
              !.maxDelay = 1 * Second,
              !.multiplier = <<1, 1>>,
              !.jitterFactor = <<0, 1>>]

Exponential(c) ==
    [c EXCEPT !.initialDelay = 100 * Millisecond,
              !.maxDelay = 30 * Second,
              !.multiplier = <<2, 1>>,
              !.jitterFactor = <<1, 10>>]

\* The option values a caller passes: <<name, argument>>.
InitialDelayArgs == {MinDuration, -1, 0, 1, 3, Pow(2, MantissaBits) + 1, MaxDuration}
MaxDelayArgs == {-1, 0, 2, 300 * Millisecond, MaxDuration}
MultiplierArgs == {<<1, 2>>, <<1, 1>>, <<3, 2>>}
JitterFactorArgs == {<<-1, 10>>, <<0, 1>>, <<1, 2>>, <<2, 1>>}
MaxRetriesArgs == {-1, 0, 2, MaxSteps}

Options ==
    ({"InitialDelay"} \X InitialDelayArgs)
    \cup ({"MaxDelay"} \X MaxDelayArgs)
    \cup ({"Multiplier"} \X MultiplierArgs)
    \cup ({"JitterFactor"} \X JitterFactorArgs)
    \cup ({"MaxRetries"} \X MaxRetriesArgs)
    \cup {<<"Constant", 0>>, <<"Exponential", 0>>}

OptionLists == UNION {[1..n -> Options] : n \in 0..MaxOptions}

\* opt(cfg)
Apply(opt, c) ==
    CASE opt[1] = "InitialDelay" -> InitialDelay(opt[2], c)
      [] opt[1] = "MaxDelay" -> MaxDelay(opt[2], c)
      [] opt[1] = "Multiplier" -> Multiplier(opt[2], c)
      [] opt[1] = "JitterFactor" -> JitterFactor(opt[2], c)
      [] opt[1] = "MaxRetries" -> MaxRetries(opt[2], c)
      [] opt[1] = "Constant" -> Constant(c)
      [] opt[1] = "Exponential" -> Exponential(c)

\* for _, opt := range options { opt(cfg) }
RECURSIVE ApplyOptions(_, _)
ApplyOptions(options, c) ==
    IF options = <<>> THEN c
    ELSE ApplyOptions(Tail(options), Apply(Head(options), c))

\* Mutant: the defaults are applied only when no option is given.
NewConfigDefaultsIfNone(options) ==
    IF options = <<>>
    THEN Exponential([ZeroConfig EXCEPT !.maxRetries = MaxInt])
    ELSE ApplyOptions(options, [ZeroConfig EXCEPT !.maxRetries = MaxInt])

\* The config Iter builds before it returns the sequence.
NewConfig(options) ==
    ApplyOptions(options, Exponential([ZeroConfig EXCEPT !.maxRetries = MaxInt]))

(***************************************************************************)
(* The body of the sequence returned by Iter.                              *)
(***************************************************************************)
\* Mutant: the loop runs once more (attempt <= cfg.maxRetries).
LoopCondLE(a, c) == a <= c.maxRetries

\* Mutant: the loop has no end (for {...}).
LoopCondAlways(a, c) == TRUE

\* attempt < cfg.maxRetries
LoopCond(a, c) == a < c.maxRetries

\* cfg.jitterFactor > 0
JitterOn(c) == c.jitterFactor[1] > 0

\* time.Duration(float64(delay) + jitter), with
\*   jitterRange = float64(delay) * jitterFactor
\*   jitter      = (rand.Float64() - 0.5) * 2 * jitterRange
\* and rand.Float64() = k / RandDen.
Jittered(dl, f, k) ==
    DurationOfFloat(Float64(dl) * RandDen * f[2]
                        + (2 * k - RandDen) * Float64(dl) * f[1],
                    RandDen * f[2])

\* if currentDelay > cfg.maxDelay { currentDelay = cfg.maxDelay }
Clamp(cur, c) == IF cur > c.maxDelay THEN c.maxDelay ELSE cur

\* The values yield can be called with at this step.
Yielded(dl, c) ==
    IF JitterOn(c)
    THEN {Clamp(Jittered(dl, c.jitterFactor, k), c) : k \in 0..(RandDen - 1)}
    ELSE {Clamp(dl, c)}

\* Mutant: the delay does not grow.
NextDelaySame(dl, c) == Min(c.maxDelay, dl)

\* nextDelay := time.Duration(float64(delay) * cfg.multiplier)
\* delay = min(cfg.maxDelay, nextDelay)
NextDelay(dl, c) ==
    Min(c.maxDelay,
        DurationOfFloat(Float64(dl) * c.multiplier[1], c.multiplier[2]))

(***************************************************************************)
(* Errors, and the operation fn.                                           *)
(***************************************************************************)
NilErr == [type |-> "nil"]

\* errors.New: the i-th invocation of fn fails with an error of its own.
ErrorString(i) == [type |-> "errorString", s |-> i]

\* Mutant: Cancel passes a nil error through.
CancelNilIsNil(err) ==
    IF err = [type |-> "nil"] THEN err
    ELSE [type |-> "CancelError", Err |-> err]

\* Mutant: Cancel drops the error it is given.
CancelDropsErr(err) == [type |-> "CancelError", Err |-> [type |-> "nil"]]

\* CancelError{Err: err}
Cancel(err) == [type |-> "CancelError", Err |-> err]

\* e.Error(): the text of an errors.New error or of a context error, and
\* for a CancelError that of the error it holds.
RECURSIVE ErrorText(_)
ErrorText(e) ==
    CASE e.type = "errorString" -> <<"errorString", e.s>>
      [] e.type = "context" -> <<"context", e.name>>
      [] e.type = "CancelError" -> ErrorText(e.Err)

\* errors.Unwrap(e): e.Unwrap() where the type has the method, else nil.
\* A *CancelError has the methods of CancelError; the error fmt.Errorf
\* makes with %w has an Unwrap of its own.
Unwrap(e) ==
    IF e.type \in {"CancelError", "*CancelError", "wrapError"}
    THEN e.Err ELSE NilErr

\* fmt.Errorf("...: %w", err)
Wrap(err) == [type |-> "wrapError", Err |-> err]

\* &CancelError{Err: err}
CancelPointer(err) == [type |-> "*CancelError", Err |-> err]

\* Whether a CancelError value lies on the Unwrap chain of e, e included
\* (what errors.As would find).
RECURSIVE HasCancelInChain(_)
HasCancelInChain(e) ==
    IF e.type = "nil" THEN FALSE
    ELSE IF e.type = "CancelError" THEN TRUE
    ELSE HasCancelInChain(Unwrap(e))

\* Mutant: the driver searches the chain (errors.As) for a CancelError.
IsCancelErrorAs(e) == HasCancelInChain(e)

\* Mutant: the type assertion names a type no error of fn has.
IsCancelErrorNever(e) == e.type = "*CancelError"

\* _, ok := lastErr.(CancelError)
IsCancelError(e) == e.type = "CancelError"

\* context.Canceled and context.DeadlineExceeded
Canceled == [type |-> "context", name |-> "Canceled"]
DeadlineExceeded == [type |-> "context", name |-> "DeadlineExceeded"]

\* What the i-th invocation of fn can return: a value of its own (i) and
\* no error, an error of its own, or that error marked by Cancel.
FnReturns(i) ==
    {[value |-> i, err |-> e] :
        e \in {NilErr, ErrorString(i), Cancel(ErrorString(i))}}

\* The same, and the other errors an operation can build from the package's
\* exported names: a cancel error wrapped once more, a pointer to a
\* CancelError, and Cancel(nil).
FnReturnsChained(i) ==
    FnReturns(i)
    \cup {[value |-> i, err |-> e] :
             e \in {Wrap(Cancel(ErrorString(i))),
                    CancelPointer(ErrorString(i)),
                    Cancel(NilErr)}}

\* The (T, error) pair of a return statement.
Return(v, e) == [value |-> v, err |-> e]

\* Mutant: the ctx.Done() arm returns the last error of fn.
CtxCaseErrLast == lastErr

\* The error of the `case <-ctx.Done()` arm: ctx.Err().
CtxCaseErr == ctxErr

\* A goroutine that makes no call.
NoSession ==
    [kind |-> "none", options |-> <<>>, want |-> 0,
     plan |-> [fails |-> 0, end |-> "nil"],
     ref |-> 0, pc |-> "idle", delay |-> 0, attempt |-> 0, currentDelay |-> 0,
     out |-> <<>>, calls |-> 0, lastErr |-> NilErr, result |-> 0,
     ret |-> Return(0, NilErr)]

\* No Option value is shared.
NoClosure == [name |-> "none", d |-> 0]

\* Mutant: Retry passes a context that can be cancelled.
CtxKindsCancellable(a) == {"WithCancel", "WithTimeout"}

\* The context of the call: Retry passes context.Background(), the caller
\* of RetryWithContext one that can be cancelled or has a deadline.
CtxKinds(a) ==
    IF a = "RetryWithContext"
    THEN {"WithCancel", "WithTimeout"} ELSE {"Background"}

(***************************************************************************)
(* Initial state: nothing called yet.                                      *)
(***************************************************************************)
Init ==
    /\ goarch \in {"amd64", "arm64"}
    /\ api \in {"Iter", "Retry", "RetryWithContext"}
    /\ pc = IF api = "Iter" THEN "iter" ELSE "start"
    /\ cfg = ZeroConfig
    /\ delay = 0 /\ attempt = 0 /\ currentDelay = 0 /\ yields = 0
    /\ want = 0 /\ count = 0
    /\ ctxKind \in CtxKinds(api)
    /\ ctxErr \in IF ctxKind = "WithCancel" THEN {NilErr, Canceled}
                  ELSE IF ctxKind = "WithTimeout" THEN {NilErr, DeadlineExceeded}
                  ELSE {NilErr}
    /\ ctxDoneAt = IF ctxErr = NilErr THEN "never" ELSE "call"
    /\ callsAtDone = 0
    /\ calls = 0 /\ lastErr = NilErr /\ result = 0
    /\ ret = Return(0, NilErr)
    /\ cfg0 = ZeroConfig /\ waits = 0 /\ exit = ""
    /\ sessions = [i \in 1..2 |-> NoSession]
    /\ configs = [i \in 1..2 |-> ZeroConfig]
    /\ closure = NoClosure

(***************************************************************************)
(* Iter.                                                                   *)
(***************************************************************************)
\* Iter(options...): build the config, return the sequence.
IterCall ==
    /\ pc = "iter"
    /\ \E options \in OptionLists : cfg' = NewConfig(options)
    /\ cfg0' = cfg'
    /\ pc' = "range"
    /\ UNCHANGED <<goarch, api, iterVars, want, count, ctxVars, fnVars, waits, exit>>
    /\ UNCHANGED pairVars

\* The sequence is ranged over: the statements before the loop.  A range
\* consumer breaks after `want` elements.
SeqStart ==
    /\ pc = "range"
    /\ delay' = cfg.initialDelay
    /\ cfg' = IF cfg.maxDelay < cfg.initialDelay
              THEN [cfg EXCEPT !.maxDelay = cfg.initialDelay] ELSE cfg
    /\ attempt' = 0
    /\ want' \in IF api = "Iter" THEN 1..MaxSteps ELSE {0}
    /\ pc' = "loop"
    /\ UNCHANGED <<goarch, api, currentDelay, yields, count, ctxVars, fnVars>>
    /\ UNCHANGED <<cfg0, waits, exit>>
    /\ UNCHANGED pairVars

\* Loop head to the call of yield, or the end of the loop.
SeqLoop ==
    /\ pc = "loop"
    /\ IF LoopCond(attempt, cfg)
       THEN /\ yields < MaxSteps
            /\ currentDelay' \in Yielded(delay, cfg)
            /\ yields' = yields + 1
            /\ pc' = "yield"
       ELSE /\ pc' = "exhausted"
            /\ UNCHANGED <<currentDelay, yields>>
    /\ UNCHANGED <<goarch, api, cfg, delay, attempt, want, count, ctxVars, fnVars>>
    /\ UNCHANGED <<cfg0, waits, exit>>
    /\ UNCHANGED pairVars

\* Mutant: the next delay is computed from the value that was yielded.
SeqAdvanceFromYielded ==
    /\ pc = "resume"
    /\ delay' = NextDelay(currentDelay, cfg)
    /\ attempt' = attempt + 1
    /\ pc' = "loop"
    /\ UNCHANGED <<goarch, api, cfg, currentDelay, yields, want, count, ctxVars, fnVars>>
    /\ UNCHANGED <<cfg0, waits, exit>>
    /\ UNCHANGED pairVars

\* yield returned true: advance the tracked delay.
SeqAdvance ==
    /\ pc = "resume"
    /\ delay' = NextDelay(delay, cfg)
    /\ attempt' = attempt + 1
    /\ pc' = "loop"
    /\ UNCHANGED <<goarch, api, cfg, currentDelay, yields, want, count, ctxVars, fnVars>>
    /\ UNCHANGED <<cfg0, waits, exit>>
    /\ UNCHANGED pairVars

\* Mutant: the sequence goes on after yield returned false.
RangeBodyIgnored ==
    /\ pc = "yield" /\ api = "Iter"
    /\ count' = count + 1
    /\ pc' = "resume"
    /\ UNCHANGED <<goarch, api, cfg, iterVars, want, ctxVars, fnVars>>
    /\ UNCHANGED <<cfg0, waits, exit>>
    /\ UNCHANGED pairVars

\* The body of a `for delay := range Iter(...)` loop that collects the
\* delay and breaks once it has `want` of them.
RangeBody ==
    /\ pc = "yield" /\ api = "Iter"
    /\ count' = count + 1
    /\ pc' = IF count' >= want THEN "stopped" ELSE "resume"
    /\ UNCHANGED <<goarch, api, cfg, iterVars, want, ctxVars, fnVars>>
    /\ UNCHANGED <<cfg0, waits, exit>>
    /\ UNCHANGED pairVars

(***************************************************************************)
(* Retry and RetryWithContext.                                             *)
(***************************************************************************)
\* Mutant: the nil check after the invocation is missing.
AfterCallNoNilCheck(r, onward) ==
    /\ calls' = calls + 1
    /\ result' = r.value
    /\ lastErr' = r.err
    /\ IF IsCancelError(r.err)
       THEN ret' = Return(r.value, r.err) /\ pc' = "done" /\ exit' = "fatal"
       ELSE ret' = ret /\ pc' = onward /\ exit' = exit

\* Mutant: lastErr keeps the error of the first invocation.
AfterCallFirstErr(r, onward) ==
    /\ calls' = calls + 1
    /\ result' = r.value
    /\ lastErr' = IF calls = 0 \/ r.err = NilErr \/ IsCancelError(r.err)
                  THEN r.err ELSE lastErr
    /\ IF r.err = NilErr
       THEN ret' = Return(r.value, NilErr) /\ pc' = "done" /\ exit' = "success"
       ELSE IF IsCancelError(r.err)
       THEN ret' = Return(r.value, r.err) /\ pc' = "done" /\ exit' = "fatal"
       ELSE ret' = ret /\ pc' = onward /\ exit' = exit

\* Mutant: the value of a failed invocation is discarded (the zero value is
\* kept in its place).
AfterCallZeroOnErr(r, onward) ==
    /\ calls' = calls + 1
    /\ result' = IF r.err = NilErr THEN r.value ELSE 0
    /\ lastErr' = r.err
    /\ IF r.err = NilErr
       THEN ret' = Return(r.value, NilErr) /\ pc' = "done" /\ exit' = "success"
       ELSE IF IsCancelError(r.err)
       THEN ret' = Return(0, r.err) /\ pc' = "done" /\ exit' = "fatal"
       ELSE ret' = ret /\ pc' = onward /\ exit' = exit

\* After an invocation of fn returned r: return on success or on a cancel
\* error, go on otherwise.
AfterCall(r, onward) ==
    /\ calls' = calls + 1
    /\ result' = r.value
    /\ lastErr' = r.err
    /\ IF r.err = NilErr
       THEN ret' = Return(r.value, NilErr) /\ pc' = "done" /\ exit' = "success"
       ELSE IF IsCancelError(r.err)
       THEN ret' = Return(r.value, r.err) /\ pc' = "done" /\ exit' = "fatal"
       ELSE ret' = ret /\ pc' = onward /\ exit' = exit

\* Mutant: the loop is entered without the first invocation.
RetryFirstCallSkipped ==
    /\ pc = "start"
    /\ pc' = "iter"
    /\ UNCHANGED <<goarch, api, cfg, iterVars, want, count, ctxVars, fnVars>>
    /\ UNCHANGED <<cfg0, waits, exit>>
    /\ UNCHANGED pairVars

\* Mutant: the first invocation's error is not tested for a cancel error.
RetryFirstCallNoCancelCheck ==
    /\ pc = "start"
    /\ \E r \in FnReturns(1) :
          /\ calls' = calls + 1
          /\ result' = r.value
          /\ lastErr' = r.err
          /\ IF r.err = NilErr
             THEN ret' = Return(r.value, NilErr) /\ pc' = "done"
                  /\ exit' = "success"
             ELSE ret' = ret /\ pc' = "iter" /\ exit' = exit
    /\ UNCHANGED <<goarch, api, cfg, iterVars, want, count, ctxVars, cfg0, waits>>
    /\ UNCHANGED pairVars

\* The first invocation, before the loop.
RetryFirstCall ==
    /\ pc = "start"
    /\ \E r \in FnReturns(1) : AfterCall(r, "iter")
    /\ UNCHANGED <<goarch, api, cfg, iterVars, want, count, ctxVars, cfg0, waits>>
    /\ UNCHANGED pairVars

\* Mutant: the timer arm is taken without the timer having fired.
SelectNoWait ==
    /\ pc = "yield" /\ api # "Iter"
    /\ \/ ctxErr # NilErr /\ pc' = "case_ctx"
       \/ pc' = "case_timer"
    /\ UNCHANGED <<goarch, api, cfg, iterVars, want, count, ctxVars, fnVars>>
    /\ UNCHANGED <<cfg0, waits, exit>>
    /\ UNCHANGED pairVars

\* The select statement is entered: time.After(delay) is evaluated and the
\* two channels are polled.  A timer of a delay <= 0 has expired; one of a
\* positive delay may have.  Among the ready cases one is chosen at random;
\* with none ready the goroutine parks.
Select ==
    /\ pc = "yield" /\ api # "Iter"
    /\ \E timerReady \in IF currentDelay <= 0 THEN {TRUE} ELSE BOOLEAN :
          \/ ctxErr # NilErr /\ pc' = "case_ctx" /\ waits' = waits
          \/ timerReady /\ pc' = "case_timer" /\ waits' = waits + 1
          \/ ctxErr = NilErr /\ ~timerReady /\ pc' = "parked" /\ waits' = waits
    /\ UNCHANGED <<goarch, api, cfg, iterVars, want, count, ctxVars, fnVars>>
    /\ UNCHANGED <<cfg0, exit>>
    /\ UNCHANGED pairVars

\* The timer expires while the goroutine is parked in the select.
TimerFire ==
    /\ pc = "parked"
    /\ pc' = "case_timer"
    /\ waits' = waits + 1
    /\ UNCHANGED <<goarch, api, cfg, iterVars, want, count, ctxVars, fnVars>>
    /\ UNCHANGED <<cfg0, exit>>
    /\ UNCHANGED pairVars

\* The context is cancelled or its deadline passes (by its owner, at any
\* time before the call returns).  A goroutine parked in the select wakes
\* with the ctx.Done() case.
CtxCancel ==
    /\ ctxKind # "Background" /\ ctxErr = NilErr
    /\ pc # "done"
    /\ ctxErr' = IF ctxKind = "WithCancel" THEN Canceled ELSE DeadlineExceeded
    /\ ctxDoneAt' = pc
    /\ callsAtDone' = calls
    /\ pc' = IF pc = "parked" THEN "case_ctx" ELSE pc
    /\ UNCHANGED <<goarch, api, cfg, iterVars, want, count, ctxKind, fnVars>>
    /\ UNCHANGED <<cfg0, waits, exit>>
    /\ UNCHANGED pairVars

\* Mutant: the ctx.Done() arm leaves the loop (break) and the call returns
\* by the statement after it.
RetryCtxDoneBreaks ==
    /\ pc = "case_ctx"
    /\ ret' = Return(result, lastErr)
    /\ pc' = "done"
    /\ exit' = "exhausted"
    /\ UNCHANGED <<goarch, api, cfg, iterVars, want, count, ctxVars, calls, lastErr, result>>
    /\ UNCHANGED <<cfg0, waits>>
    /\ UNCHANGED pairVars

\* case <-ctx.Done(): return result, ctx.Err()
RetryCtxDone ==
    /\ pc = "case_ctx"
    /\ ret' = Return(result, CtxCaseErr)
    /\ pc' = "done"
    /\ exit' = "cancelled"
    /\ UNCHANGED <<goarch, api, cfg, iterVars, want, count, ctxVars, calls, lastErr, result>>
    /\ UNCHANGED <<cfg0, waits>>
    /\ UNCHANGED pairVars

\* case <-time.After(delay): invoke fn again
RetryCall ==
    /\ pc = "case_timer"
    /\ \E r \in FnReturns(calls + 1) : AfterCall(r, "resume")
    /\ UNCHANGED <<goarch, api, cfg, iterVars, want, count, ctxVars, cfg0, waits>>
    /\ UNCHANGED pairVars

\* Mutant: exhaustion returns no error.
RetryExhaustedNil ==
    /\ pc = "exhausted" /\ api # "Iter"
    /\ ret' = Return(result, NilErr)
    /\ pc' = "done"
    /\ exit' = "exhausted"
    /\ UNCHANGED <<goarch, api, cfg, iterVars, want, count, ctxVars, calls, lastErr, result>>
    /\ UNCHANGED <<cfg0, waits>>
    /\ UNCHANGED pairVars

\* The sequence ended: return result, lastErr
RetryExhausted ==
    /\ pc = "exhausted" /\ api # "Iter"
    /\ ret' = Return(result, lastErr)
    /\ pc' = "done"
    /\ exit' = "exhausted"
    /\ UNCHANGED <<goarch, api, cfg, iterVars, want, count, ctxVars, calls, lastErr, result>>
    /\ UNCHANGED <<cfg0, waits>>
    /\ UNCHANGED pairVars

Next ==
    \/ IterCall
    \/ SeqStart
    \/ SeqLoop
    \/ SeqAdvance
    \/ RangeBody
    \/ RetryFirstCall
    \/ Select
    \/ TimerFire
    \/ CtxCancel
    \/ RetryCtxDone
    \/ RetryCall
    \/ RetryExhausted

Spec == Init /\ [][Next]_vars

\* A call of Retry or RetryWithContext whose steps are all taken in the
\* end: the goroutine is scheduled, every invocation of fn returns and
\* every timer fires.  Whether the context is ever cancelled is up to its
\* owner.  The options are the defaults and the Constant preset, each with
\* every retry limit, and one that makes delays negative (a timer that has
\* expired at once); jitter, which only varies the length of a wait, is off.
RetryInit == Init /\ api # "Iter"

LiveOptionLists ==
    {<<<<"JitterFactor", <<0, 1>>>>>>, <<<<"Constant", 0>>>>,
     <<<<"JitterFactor", <<0, 1>>>>, <<"InitialDelay", MaxDuration>>>>}
    \cup {<<<<"JitterFactor", <<0, 1>>>>, <<"MaxRetries", r>>>> :
              r \in MaxRetriesArgs}
    \cup {<<<<"Constant", 0>>, <<"MaxRetries", r>>>> : r \in MaxRetriesArgs}

\* Iter(options...) as RetryWithContext calls it.
IterCallLive ==
    /\ pc = "iter"
    /\ \E options \in LiveOptionLists : cfg' = NewConfig(options)
    /\ cfg0' = cfg'
    /\ pc' = "range"
    /\ UNCHANGED <<goarch, api, iterVars, want, count, ctxVars, fnVars, waits, exit>>
    /\ UNCHANGED pairVars

Progress ==
    \/ RetryFirstCall
    \/ IterCallLive
    \/ SeqStart
    \/ SeqLoop
    \/ SeqAdvance
    \/ Select
    \/ TimerFire
    \/ RetryCtxDone
    \/ RetryCall
    \/ RetryExhausted

RetryNext == Progress \/ CtxCancel

LiveSpec == RetryInit /\ [][RetryNext]_vars /\ WF_vars(Progress)

\* A call of Retry or RetryWithContext whose operation also returns cancel
\* errors that are wrapped, held by pointer, or made from nil.
RetryFirstCallChained ==
    /\ pc = "start"
    /\ \E r \in FnReturnsChained(1) : AfterCall(r, "iter")
    /\ UNCHANGED <<goarch, api, cfg, iterVars, want, count, ctxVars, cfg0, waits>>
    /\ UNCHANGED pairVars

RetryCallChained ==
    /\ pc = "case_timer"
    /\ \E r \in FnReturnsChained(calls + 1) : AfterCall(r, "resume")
    /\ UNCHANGED <<goarch, api, cfg, iterVars, want, count, ctxVars, cfg0, waits>>
    /\ UNCHANGED pairVars

ChainNext ==
    \/ RetryFirstCallChained
    \/ IterCallLive
    \/ SeqStart
    \/ SeqLoop
    \/ SeqAdvance
    \/ Select
    \/ TimerFire
    \/ CtxCancel
    \/ RetryCtxDone
    \/ RetryCallChained
    \/ RetryExhausted

ChainSpec == RetryInit /\ [][ChainNext]_vars

TypeOK ==
    /\ pc \in {"start", "iter", "range", "loop", "yield", "resume", "stopped",
               "exhausted", "parked", "case_ctx", "case_timer", "done"}
    /\ delay \in MinDuration..MaxDuration
    /\ currentDelay \in MinDuration..MaxDuration
    /\ attempt \in 0..MaxSteps /\ yields \in 0..MaxSteps
    /\ calls \in 0..(MaxSteps + 1)

(***************************************************************************)
(* Two goroutines, each making one call: a range over Iter(options...), a  *)
(* Retry(fn, options...), or a range over the sequence the other goroutine *)
(* got from Iter.  Their statements interleave.  Each goroutine's locals   *)
(* are a record of `sessions`; the config objects are in `configs`, and a  *)
(* sequence refers to the one its closure captured.  Jitter is off.        *)
(***************************************************************************)
Goroutines == 1..2
Other(i) == 3 - i

\* An operation that fails `fails` times and then returns nil or a cancel
\* error; the i-th invocation returns the value i.
Plans == {[fails |-> f, end |-> e] :
             f \in {0, 1, MaxSteps + 1}, e \in {"nil", "CancelError"}}

FnPlanned(plan, i) ==
    [value |-> i,
     err |-> IF i <= plan.fails THEN ErrorString(i)
             ELSE IF plan.end = "nil" THEN NilErr
             ELSE Cancel(ErrorString(i))]

\* The option lists the goroutines pass: one option, then JitterFactor(0).
PairOptionLists ==
    {<<o, <<"JitterFactor", <<0, 1>>>>>> :
        o \in {<<"InitialDelay", MaxDuration>>, <<"InitialDelay", 3>>,
               <<"MaxDelay", 2>>, <<"Multiplier", <<3, 2>>>>,
               <<"MaxRetries", 2>>, <<"Constant", 0>>}}

\* Mutant: Iter keeps its config in one package-level object.
NewObjectShared(i) == 1

\* cfg := &config{...}: every call of Iter allocates its own object.
NewObject(i) == i

PairInit ==
    /\ goarch \in {"amd64", "arm64"}
    /\ api = "go" /\ pc = "idle"
    /\ cfg = ZeroConfig /\ cfg0 = ZeroConfig
    /\ delay = 0 /\ attempt = 0 /\ currentDelay = 0 /\ yields = 0
    /\ want = 0 /\ count = 0
    /\ ctxKind = "Background" /\ ctxErr = NilErr
    /\ ctxDoneAt = "never" /\ callsAtDone = 0
    /\ calls = 0 /\ lastErr = NilErr /\ result = 0
    /\ ret = Return(0, NilErr) /\ waits = 0 /\ exit = ""
    /\ configs = [i \in Goroutines |-> ZeroConfig]
    /\ closure = NoClosure
    /\ sessions \in [Goroutines ->
          {[NoSession EXCEPT !.kind = "Iter", !.options = o, !.want = w,
                             !.pc = "iter"] :
              o \in PairOptionLists, w \in 1..MaxSteps}
          \cup {[NoSession EXCEPT !.kind = "Retry", !.options = o, !.plan = p,
                                  !.pc = "start"] :
              o \in PairOptionLists, p \in Plans}
          \cup {[NoSession EXCEPT !.kind = "Range", !.options = o, !.want = w,
                                  !.pc = "await"] :
              o \in PairOptionLists, w \in 1..MaxSteps}]
    /\ \A i \in Goroutines :
          sessions[i].kind = "Range"
              => /\ sessions[Other(i)].kind = "Iter"
                 /\ sessions[i].options = sessions[Other(i)].options

\* Iter(options...) in goroutine i.
IterCallOf(i) ==
    /\ sessions[i].pc = "iter"
    /\ configs' = [configs EXCEPT ![NewObject(i)] = NewConfig(sessions[i].options)]
    /\ sessions' = [sessions EXCEPT ![i].ref = NewObject(i), ![i].pc = "range"]
    /\ UNCHANGED <<soloVars, closure>>

\* Goroutine i ranges over the sequence the other goroutine's Iter call
\* returned: the closure, and with it the config it captured, is shared.
RangeSame(i) ==
    /\ sessions[i].pc = "await"
    /\ sessions[Other(i)].ref # 0
    /\ sessions' = [sessions EXCEPT ![i].ref = sessions[Other(i)].ref,
                                    ![i].pc = "range"]
    /\ UNCHANGED <<configs, soloVars, closure>>

\* Mutant: delay is a variable of Iter, not of the closure it returns: a
\* second range over the sequence goes on where the first one is.
SeqStartOfResumes(i) ==
    /\ sessions[i].pc = "range"
    /\ LET s == sessions[i]
           c == configs[s.ref]
           o == sessions[Other(i)]
       IN  /\ configs' = [configs EXCEPT ![s.ref] =
                              IF c.maxDelay < c.initialDelay
                              THEN [c EXCEPT !.maxDelay = c.initialDelay]
                              ELSE c]
           /\ sessions' = [sessions EXCEPT
                  ![i].delay = IF o.ref = s.ref /\ o.out # <<>>
                               THEN o.delay ELSE c.initialDelay,
                  ![i].attempt = 0,
                  ![i].pc = "loop"]
    /\ UNCHANGED <<soloVars, closure>>

\* The statements of the sequence before its loop, in goroutine i.
SeqStartOf(i) ==
    /\ sessions[i].pc = "range"
    /\ LET s == sessions[i]
           c == configs[s.ref]
       IN  /\ configs' = [configs EXCEPT ![s.ref] =
                              IF c.maxDelay < c.initialDelay
                              THEN [c EXCEPT !.maxDelay = c.initialDelay]
                              ELSE c]
           /\ sessions' = [sessions EXCEPT ![i].delay = c.initialDelay,
                                           ![i].attempt = 0,
                                           ![i].pc = "loop"]
    /\ UNCHANGED <<soloVars, closure>>

\* Loop head to the call of yield, or the end of the loop.
SeqLoopOf(i) ==
    /\ sessions[i].pc = "loop"
    /\ LET s == sessions[i]
           c == configs[s.ref]
       IN  IF LoopCond(s.attempt, c)
           THEN /\ Len(s.out) < MaxSteps
                /\ \E d \in Yielded(s.delay, c) :
                      sessions' = [sessions EXCEPT ![i].currentDelay = d,
                                                  ![i].out = Append(s.out, d),
                                                  ![i].pc = "yield"]
           ELSE sessions' = [sessions EXCEPT ![i].pc = "exhausted"]
    /\ UNCHANGED <<configs, soloVars, closure>>

\* yield returned true.
SeqAdvanceOf(i) ==
    /\ sessions[i].pc = "resume"
    /\ LET s == sessions[i]
       IN  sessions' = [sessions EXCEPT
               ![i].delay = NextDelay(s.delay, configs[s.ref]),
               ![i].attempt = s.attempt + 1,
               ![i].pc = "loop"]
    /\ UNCHANGED <<configs, soloVars, closure>>

\* The body of a range loop that breaks once it has `want` delays.
RangeBodyOf(i) ==
    /\ sessions[i].pc = "yield" /\ sessions[i].kind \in {"Iter", "Range"}
    /\ sessions' = [sessions EXCEPT ![i].pc =
                        IF Len(sessions[i].out) >= sessions[i].want
                        THEN "stopped" ELSE "resume"]
    /\ UNCHANGED <<configs, soloVars, closure>>

\* The locals of RetryWithContext after an invocation of fn returned r.
AfterCallOf(s, r, onward) ==
    [s EXCEPT !.calls = s.calls + 1,
              !.result = r.value,
              !.lastErr = r.err,
              !.ret = IF r.err = NilErr \/ IsCancelError(r.err)
                      THEN Return(r.value, r.err) ELSE s.ret,
              !.pc = IF r.err = NilErr \/ IsCancelError(r.err)
                     THEN "done" ELSE onward]

\* Retry: the first invocation.
RetryFirstCallOf(i) ==
    /\ sessions[i].pc = "start"
    /\ sessions' = [sessions EXCEPT ![i] =
           AfterCallOf(sessions[i], FnPlanned(sessions[i].plan, 1), "iter")]
    /\ UNCHANGED <<configs, soloVars, closure>>

\* Retry: the select; with context.Background() it ends by the timer.
SelectOf(i) ==
    /\ sessions[i].pc = "yield" /\ sessions[i].kind = "Retry"
    /\ sessions' = [sessions EXCEPT ![i].pc = "case_timer"]
    /\ UNCHANGED <<configs, soloVars, closure>>

\* Retry: the invocation after a wait.
RetryCallOf(i) ==
    /\ sessions[i].pc = "case_timer"
    /\ sessions' = [sessions EXCEPT ![i] =
           AfterCallOf(sessions[i],
                       FnPlanned(sessions[i].plan, sessions[i].calls + 1),
                       "resume")]
    /\ UNCHANGED <<configs, soloVars, closure>>

\* Retry: return result, lastErr
RetryExhaustedOf(i) ==
    /\ sessions[i].pc = "exhausted" /\ sessions[i].kind = "Retry"
    /\ sessions' = [sessions EXCEPT
           ![i].ret = Return(sessions[i].result, sessions[i].lastErr),
           ![i].pc = "done"]
    /\ UNCHANGED <<configs, soloVars, closure>>

PairNext ==
    \E i \in Goroutines :
        \/ IterCallOf(i)
        \/ RangeSame(i)
        \/ SeqStartOf(i)
        \/ SeqLoopOf(i)
        \/ SeqAdvanceOf(i)
        \/ RangeBodyOf(i)
        \/ RetryFirstCallOf(i)
        \/ SelectOf(i)
        \/ RetryCallOf(i)
        \/ RetryExhaustedOf(i)

PairSpec == PairInit /\ [][PairNext]_vars

(***************************************************************************)
(* One Option value applied by two goroutines, each to a config of its     *)
(* own (opt(cfg) in two Iter calls that were passed the same value).  The  *)
(* Option is the closure its constructor returned; the constructor's       *)
(* parameter d is the variable the closure captured, and the closure       *)
(* assigns to it, so it is one variable for all applications of the value. *)
(* The statements of the closure are steps: the test of d, the assignment  *)
(* of the default to d, the assignment of d to the field.                  *)
(***************************************************************************)
Presets == {"Constant", "Exponential"}

\* The test that guards the default: d <= 0, m <= 1.0, factor < 0,
\* retries < 0; a preset has none.
OutOfRange(name, d) ==
    CASE name \in {"InitialDelay", "MaxDelay"} -> d <= 0
      [] name = "Multiplier" -> d[1] <= d[2]
      [] name = "JitterFactor" -> d[1] < 0
      [] name = "MaxRetries" -> d < 0
      [] name \in Presets -> FALSE

\* The value assigned to the parameter when the test holds.
DefaultArg(name) ==
    CASE name = "InitialDelay" -> 1 * Millisecond
      [] name = "MaxDelay" -> 30 * Second
      [] name = "Multiplier" -> <<2, 1>>
      [] name = "JitterFactor" -> <<0, 1>>
      [] name = "MaxRetries" -> 0

\* The last statement of the closure: c.field = d; the four assignments of
\* a preset.
Assign(name, d, c) ==
    CASE name = "InitialDelay" -> [c EXCEPT !.initialDelay = d]
      [] name = "MaxDelay" -> [c EXCEPT !.maxDelay = d]
      [] name = "Multiplier" -> [c EXCEPT !.multiplier = d]
      [] name = "JitterFactor" -> [c EXCEPT !.jitterFactor = d]
      [] name = "MaxRetries" -> [c EXCEPT !.maxRetries = d]
      [] name = "Constant" -> Constant(c)
      [] name = "Exponential" -> Exponential(c)

\* The config goroutine i applies the option to: the defaults, and the
\* defaults after Constant().
StartConfig(i) ==
    IF i = 1 THEN NewConfig(<<>>) ELSE NewConfig(<<<<"Constant", 0>>>>)

OptionInit ==
    /\ goarch \in {"amd64", "arm64"}
    /\ api = "go" /\ pc = "idle"
    /\ cfg = ZeroConfig /\ cfg0 = ZeroConfig
    /\ delay = 0 /\ attempt = 0 /\ currentDelay = 0 /\ yields = 0
    /\ want = 0 /\ count = 0
    /\ ctxKind = "Background" /\ ctxErr = NilErr
    /\ ctxDoneAt = "never" /\ callsAtDone = 0
    /\ calls = 0 /\ lastErr = NilErr /\ result = 0
    /\ ret = Return(0, NilErr) /\ waits = 0 /\ exit = ""
    /\ configs = [i \in Goroutines |-> StartConfig(i)]
    /\ \E opt \in Options :
          /\ closure = [name |-> opt[1], d |-> opt[2]]
          /\ sessions = [i \in Goroutines |->
                 [NoSession EXCEPT !.kind = "Apply", !.options = <<opt>>,
                                   !.ref = i, !.pc = "opt"]]

\* opt(cfg) in goroutine i: the closure is entered and its test evaluated.
OptTestOf(i) ==
    /\ sessions[i].pc = "opt"
    /\ sessions' = [sessions EXCEPT ![i].pc =
                        IF OutOfRange(closure.name, closure.d)
                        THEN "default" ELSE "assign"]
    /\ UNCHANGED <<configs, closure, soloVars>>

\* d = 1 * time.Millisecond (and the like): the captured variable is set.
OptDefaultOf(i) ==
    /\ sessions[i].pc = "default"
    /\ closure' = [closure EXCEPT !.d = DefaultArg(closure.name)]
    /\ sessions' = [sessions EXCEPT ![i].pc = "assign"]
    /\ UNCHANGED <<configs, soloVars>>

\* c.initialDelay = d (and the like).
OptAssignOf(i) ==
    /\ sessions[i].pc = "assign"
    /\ configs' = [configs EXCEPT ![sessions[i].ref] =
                       Assign(closure.name, closure.d, configs[sessions[i].ref])]
    /\ sessions' = [sessions EXCEPT ![i].pc = "applied"]
    /\ UNCHANGED <<closure, soloVars>>

OptionNext ==
    \E i \in Goroutines :
        \/ OptTestOf(i)
        \/ OptDefaultOf(i)
        \/ OptAssignOf(i)

OptionSpec == OptionInit /\ [][OptionNext]_vars

(***************************************************************************)
(* Properties of the retry driver.                                         *)
(***************************************************************************)
Driver == api \in {"Retry", "RetryWithContext"}
Recoverable(e) == e.type = "errorString"
MadeByCancel(e) == e.type = "CancelError"

\* C1: with a context that is never cancelled, an operation that fails
\* recoverably k times and then succeeds (k <= max_retries) is invoked
\* exactly k+1 times, exactly k delays are taken from the generator, and the
\* call returns the value of the successful invocation with a nil error; the
\* driver does not give up while retries are left.
C1_SucceedsAfterKFailures ==
    (Driver /\ ctxErr = NilErr) =>
        /\ (calls > 0 /\ lastErr = NilErr) =>
              /\ pc = "done"
              /\ ret = Return(calls, NilErr)
              /\ yields = calls - 1
              /\ calls > 1 => calls - 1 <= cfg.maxRetries
        /\ (pc = "done" /\ Recoverable(lastErr)) => calls > cfg.maxRetries

C1_Witness ==
    /\ api = "Retry" /\ pc = "done"
    /\ calls = 3 /\ yields = 2
    /\ ret = Return(3, NilErr)

\* C2: with a context that is never cancelled and max_retries = n, an
\* operation whose every invocation fails recoverably is invoked exactly n+1
\* times and the call returns the error of the last invocation.
C2_AlwaysFailing ==
    (Driver /\ ctxErr = NilErr /\ pc = "done" /\ Recoverable(lastErr)) =>
        /\ calls - 1 = cfg.maxRetries
        /\ ret.err = ErrorString(calls)

C2_Witness ==
    /\ api = "Retry" /\ pc = "done"
    /\ cfg.maxRetries = 2 /\ calls = 3
    /\ ret.err = ErrorString(3)

\* C3: when the j-th invocation returns an error made by Cancel (the earlier
\* ones failed recoverably), the operation has been invoked exactly j times,
\* no delay is taken after it, and the call returns that cancel error,
\* whatever max_retries is.
C3_CancelErrorStops ==
    (Driver /\ MadeByCancel(lastErr)) =>
        /\ pc = "done"
        /\ ret = Return(calls, Cancel(ErrorString(calls)))
        /\ yields = calls - 1

C3_Witness ==
    /\ Driver /\ pc = "done"
    /\ cfg.maxRetries = MaxInt
    /\ calls = 2 /\ yields = 1
    /\ ret.err = Cancel(ErrorString(2))

\* C4: when the context becomes done while the driver is parked in the wait
\* for a delay (the operation has only failed recoverably), the operation is
\* not invoked again, the number of invocations is at most max_retries + 1,
\* and the call returns ctx.Err(), not the last error of the operation.
C4_CancelledMidWait ==
    (Driver /\ ctxDoneAt = "parked") =>
        /\ pc \in {"case_ctx", "done"}
        /\ calls = callsAtDone
        /\ calls - 1 <= cfg.maxRetries
        /\ Recoverable(lastErr)
        /\ pc = "done" => (ret.err = ctxErr /\ ret.err # lastErr)

C4_Witness ==
    /\ pc = "done" /\ ctxDoneAt = "parked"
    /\ calls = 2
    /\ ret.err = DeadlineExceeded

\* C5: once the context is done when the driver starts, or when it enters or
\* is inside a wait for a delay, the operation is not invoked again and the
\* call returns ctx.Err() -- also when the timer is ready at the same moment.
C5_DoneContextStopsInvocations ==
    (Driver /\ ctxErr # NilErr /\ ctxDoneAt # "case_timer") =>
        /\ calls = callsAtDone
        /\ pc = "done" => ret.err = ctxErr

\* C6: whenever the context is done before RetryWithContext returns
\* (including a context already done at the call), the error returned is
\* ctx.Err().
C6_ReturnsContextError ==
    (api = "RetryWithContext" /\ pc = "done" /\ ctxErr # NilErr) =>
        ret.err = ctxErr

(***************************************************************************)
(* Properties of the delay sequence.                                       *)
(***************************************************************************)
\* d = min(c.maxDelay, c.initialDelay * multiplier^n), compared exactly.
IsClosedForm(d, c, n) ==
    LET p == c.initialDelay * Pow(c.multiplier[1], n)
        q == Pow(c.multiplier[2], n)
    IN  IF p >= c.maxDelay * q THEN d = c.maxDelay ELSE d * q = p

\* C7: with jitter factor 0, initial_delay > 0, max_delay >= initial_delay
\* and multiplier > 1, the n-th delay yielded (n counted from 0) equals
\* min(max_delay, initial_delay * multiplier^n).
C7_ClosedFormDelays ==
    (/\ pc = "yield"
     /\ ~JitterOn(cfg)
     /\ cfg.initialDelay > 0
     /\ cfg.maxDelay >= cfg.initialDelay
     /\ cfg.multiplier[1] > cfg.multiplier[2]) =>
        IsClosedForm(currentDelay, cfg, attempt)

\* C8: every delay yielded lies in [0, max_delay], for every configuration
\* the options can build and every jitter outcome.
C8_DelayWithinZeroAndCap ==
    pc = "yield" => (0 <= currentDelay /\ currentDelay <= cfg.maxDelay)

\* C9: with jitter factor f > 0, a delay d yielded at a step whose
\* unjittered base is b satisfies b*(1-f) <= d <= b*(1+f), for every jitter
\* outcome, also where the cap clamps the value.
C9_JitterBand ==
    (pc = "yield" /\ JitterOn(cfg)) =>
        LET fn == cfg.jitterFactor[1]
            fd == cfg.jitterFactor[2]
        IN  /\ delay * (fd - fn) <= currentDelay * fd
            /\ currentDelay * fd <= delay * (fd + fn)

\* C10: a sequence consumed to its end has yielded exactly max_retries
\* delays (none when max_retries = 0); a consumer that stops after `want`
\* elements has received min(max_retries, want) of them; with the default
\* max_retries (no MaxRetries option) the sequence does not end on its own.
C10_SequenceLength ==
    /\ pc = "exhausted" => yields = cfg.maxRetries
    /\ (api = "Iter" /\ pc \in {"exhausted", "stopped"}) =>
          (count = yields /\ count = Min(cfg.maxRetries, want))
    /\ cfg.maxRetries = MaxInt => pc # "exhausted"

C10_Witness ==
    /\ api = "Iter" /\ pc = "exhausted"
    /\ cfg.maxRetries = 2 /\ want = 3 /\ count = 2
\* C11: the unjittered base delay never decreases from one step to the
\* next, never exceeds the cap, and once it equals the cap it stays there.
C11_BaseDelayMonotone ==
    [][(pc = "resume" /\ pc' = "loop")
          => /\ delay' >= delay
             /\ delay' <= cfg.maxDelay
             /\ (delay = cfg.maxDelay => delay' = cfg.maxDelay)]_vars

\* C12: the operation is invoked once before the generator is built or any
\* delay is requested; with maxRetries = 0 the driver ends after exactly one
\* invocation and returns its result; a first invocation that succeeds is
\* the only one.
C12_InvokedOnceFirst ==
    Driver =>
        /\ (calls = 0 <=> pc = "start")
        /\ (calls = 0 => cfg = ZeroConfig /\ yields = 0 /\ waits = 0)
        /\ (pc = "done" /\ cfg.maxRetries = 0
               => calls = 1 /\ yields = 0 /\ ret = Return(1, lastErr))
        /\ (calls >= 1 /\ cfg = ZeroConfig /\ lastErr = NilErr
               => calls = 1 /\ pc = "done" /\ ret = Return(1, NilErr))
        /\ (pc = "done" /\ ret.err = NilErr /\ cfg = ZeroConfig => calls = 1)

C12_Witness ==
    /\ Driver /\ pc = "done"
    /\ cfg # ZeroConfig /\ cfg.maxRetries = 0
    /\ calls = 1 /\ ret = Return(1, ErrorString(1))

\* C13: a cancel error from the first invocation is returned at once: the
\* generator is never built, no delay is waited and there is no second
\* invocation.
C13_FirstCancelReturnsAtOnce ==
    (Driver /\ calls = 1 /\ MadeByCancel(lastErr))
        => /\ pc = "done"
           /\ exit = "fatal"
           /\ ret = Return(1, Cancel(ErrorString(1)))
           /\ cfg = ZeroConfig /\ yields = 0 /\ waits = 0

C13_Witness ==
    /\ Driver /\ pc = "done" /\ exit = "fatal"
    /\ calls = 1 /\ ret.err = Cancel(ErrorString(1))

\* C14: Retry never ends with a context error: it returns nil with the
\* successful value, a cancel error the operation returned, or the last
\* recoverable error once the retries are exhausted.
C14_RetryNeverCancelled ==
    api = "Retry" =>
        /\ ctxErr = NilErr
        /\ exit # "cancelled"
        /\ pc = "done" =>
              /\ ret.err.type # "context"
              /\ \/ exit = "success" /\ ret = Return(calls, NilErr)
                 \/ /\ exit = "fatal"
                    /\ ret = Return(calls, Cancel(ErrorString(calls)))
                 \/ /\ exit = "exhausted"
                    /\ ret = Return(calls, ErrorString(calls))
                    /\ calls - 1 = cfg.maxRetries

C14_Witness ==
    /\ api = "Retry" /\ pc = "done"
    /\ exit = "exhausted" /\ calls = 3 /\ waits = 2

\* C15: invocations and waits alternate: once the first invocation has
\* returned, the number of invocations is 1 plus the number of waits the
\* timer ended, the invocation that a just-ended wait has made due counted
\* in; invocation N+1 starts only after N delays were yielded and N waits
\* ended.
C15_StrictlySequential ==
    (Driver /\ pc # "start") =>
        /\ calls + (IF pc = "case_timer" THEN 1 ELSE 0) = 1 + waits
        /\ waits <= yields
        /\ yields <= calls
        /\ (pc = "case_timer" => yields = calls /\ waits = calls)
        /\ (pc \in {"yield", "parked", "case_ctx"}
               => yields = calls /\ waits = calls - 1)

C15_Witness ==
    /\ Driver /\ pc = "case_timer"
    /\ calls = 2 /\ waits = 2 /\ yields = 2

\* C16: a call that ends because the delay sequence is exhausted returns
\* the error of the final invocation itself, not an earlier one and not
\* wrapped.
C16_ExhaustionReturnsLastError ==
    exit = "exhausted" =>
        /\ pc = "done"
        /\ calls - 1 = cfg.maxRetries
        /\ ret.err = lastErr
        /\ ret.err = ErrorString(calls)
        /\ ret.value = calls

C16_Witness ==
    /\ exit = "exhausted" /\ calls = 3
    /\ ret = Return(3, ErrorString(3))

\* A config whose delays are positive and whose jitter factor and retry
\* count are not negative.
Normalized(c) ==
    /\ c.initialDelay > 0
    /\ c.maxDelay > 0
    /\ c.jitterFactor[1] >= 0 /\ c.jitterFactor[2] > 0
    /\ c.maxRetries >= 0

C19_CapRaisedToInitialDelay ==
    (cfg0 # ZeroConfig /\ cfg0.maxDelay < cfg0.initialDelay)
        => /\ pc # "range" => cfg.maxDelay = cfg0.initialDelay
           /\ pc = "yield" /\ ~JitterOn(cfg) => currentDelay = cfg0.initialDelay
           /\ pc = "yield" /\ yields = 1 /\ JitterOn(cfg)
                 => currentDelay \in Yielded(cfg0.initialDelay, cfg)
           /\ pc = "range" =>
                 \A d \in InitialDelayArgs : \A m \in MaxDelayArgs :
                     InitialDelay(d, MaxDelay(m, cfg0))
                         = MaxDelay(m, InitialDelay(d, cfg0))

\* C20: with the Constant preset, alone or followed by InitialDelay(d) and
\* MaxRetries(n), every delay yielded is the initial delay (1s, or d), and
\* a sequence run to its end yields n of them.
C20_ConstantYieldsFixedDelay ==
    (/\ cfg0 # ZeroConfig
     /\ cfg0.multiplier = <<1, 1>>
     /\ cfg0.jitterFactor = <<0, 1>>
     /\ cfg0.maxDelay = 1 * Second)
        => /\ pc = "yield" => currentDelay = cfg0.initialDelay
           /\ pc = "exhausted" => yields = cfg0.maxRetries

\* C21: Iter(Exponential(), MaxRetries(4)) yields exactly 100ms, 200ms,
\* 400ms and 800ms.
C21_ExponentialExactDelays ==
    cfg0 = [Exponential(ZeroConfig) EXCEPT !.maxRetries = 4]
        => /\ pc = "yield"
                 => currentDelay = 100 * Millisecond * Pow(2, yields - 1)
           /\ pc = "exhausted" => yields = 4

\* A goroutine that ranges over a sequence.
Ranges(i) == sessions[i].kind \in {"Iter", "Range"}

\* C22: without jitter, two ranges over sequences built from the same
\* options (two Iter calls, or one sequence ranged twice), interleaved in
\* any way, yield the same delays position by position, and each begins
\* with the initial delay.
C22_SameOptionsSameDelays ==
    \A i \in Goroutines : \A j \in Goroutines :
        (Ranges(i) /\ Ranges(j) /\ sessions[i].options = sessions[j].options)
            => /\ \A n \in 1..Min(Len(sessions[i].out), Len(sessions[j].out)) :
                     sessions[i].out[n] = sessions[j].out[n]
               /\ sessions[i].out # <<>>
                     => sessions[i].out[1]
                            = NewConfig(sessions[i].options).initialDelay

C22_Witness ==
    /\ sessions[1].kind = "Iter" /\ sessions[2].kind = "Range"
    /\ sessions[1].pc = "stopped" /\ sessions[2].pc = "stopped"
    /\ Len(sessions[1].out) = 3 /\ Len(sessions[2].out) = 2
    /\ sessions[1].out[1] < sessions[1].out[2]
    /\ sessions[1].out[2] < sessions[1].out[3]

\* The base delay after i steps when nothing but the config enters it.
RECURSIVE BaseDelay(_, _)
BaseDelay(c, i) ==
    IF i = 0 THEN c.initialDelay ELSE NextDelay(BaseDelay(c, i - 1), c)

\* C23: the base delay at step i is determined by the config and i alone,
\* whatever the jitter outcomes of the steps before were.
C23_JitterNeverCompounds ==
    (cfg0 # ZeroConfig /\ pc # "range") => delay = BaseDelay(cfg, attempt)

C23_Witness ==
    /\ JitterOn(cfg) /\ pc = "yield"
    /\ attempt = 2 /\ currentDelay # delay
    /\ delay = BaseDelay(cfg, 2) /\ delay > cfg.initialDelay

\* C24: the sequence produces one element per demand and stops with the
\* consumer.  Ranged directly, it has called yield as often as the consumer
\* took an element (once more while the consumer holds one), never more
\* than the consumer wants, and when the consumer has broken off it has
\* not advanced past the last element.  Under the retry driver a return
\* from inside the loop leaves the sequence at the element it yielded last.
C24_StopsWithConsumer ==
    /\ yields > 0 => attempt \in {yields - 1, yields}
    /\ api = "Iter" =>
          /\ yields = count + (IF pc = "yield" THEN 1 ELSE 0)
          /\ yields <= want
          /\ pc = "stopped" =>
                /\ yields = want
                /\ attempt = want - 1
                /\ delay = BaseDelay(cfg, want - 1)
    /\ Driver =>
          /\ yields <= calls
          /\ (exit \in {"success", "fatal", "cancelled"} /\ yields > 0)
                => /\ attempt = yields - 1
                   /\ delay = BaseDelay(cfg, yields - 1)

C24_Witness ==
    /\ api = "Iter" /\ pc = "stopped"
    /\ cfg.maxRetries = MaxInt
    /\ want = 2 /\ yields = 2 /\ attempt = 1

\* C25: running the sequence leaves every field of the config as Iter
\* built it.
C25_ConfigReadOnly ==
    cfg0 # ZeroConfig => cfg = cfg0

\* The config with the cap the sequence runs with.
Raised(c) ==
    IF c.maxDelay < c.initialDelay
    THEN [c EXCEPT !.maxDelay = c.initialDelay] ELSE c

\* The number of invocations of a Retry call on its own.
SoloCalls(c, plan) == Min(plan.fails, c.maxRetries) + 1

\* C26: a goroutine that makes its own call (a range over its own Iter
\* call, or a Retry) gets, in every interleaving with the other goroutine,
\* what the call gives on its own: its config is the one its options build,
\* the delays it consumes are those of that config, as many as it asks for
\* or as the config allows, and a Retry makes the invocations its operation
\* and its config determine and returns the last one's value and error.
C26_SessionsIndependent ==
    \A i \in Goroutines :
        LET s == sessions[i]
            c == Raised(NewConfig(s.options))
        IN  s.kind \in {"Iter", "Retry"} =>
              /\ s.ref # 0 => configs[s.ref] \in {NewConfig(s.options), c}
              /\ \A n \in 1..Len(s.out) :
                    s.out[n] = Clamp(BaseDelay(c, n - 1), c)
              /\ s.kind = "Iter" =>
                    /\ Len(s.out) <= s.want
                    /\ s.pc = "stopped" => Len(s.out) = s.want
                    /\ s.pc = "exhausted" => Len(s.out) = c.maxRetries
              /\ s.kind = "Retry" =>
                    /\ s.calls <= SoloCalls(c, s.plan)
                    /\ s.pc = "done" =>
                          /\ s.calls = SoloCalls(c, s.plan)
                          /\ Len(s.out) = s.calls - 1
                          /\ s.ret = Return(s.calls,
                                            FnPlanned(s.plan, s.calls).err)

C26_Witness ==
    /\ sessions[1].kind = "Retry" /\ sessions[2].kind = "Retry"
    /\ sessions[1].options # sessions[2].options
    /\ sessions[1].pc = "done" /\ sessions[2].pc = "done"
    /\ sessions[1].calls = 3 /\ sessions[1].ret.err = ErrorString(3)
    /\ sessions[2].calls = 2 /\ sessions[2].ret.err = NilErr
    /\ sessions[1].out[1] # sessions[2].out[1]

\* The config has no retry limit.
Unlimited == cfg0 # ZeroConfig /\ cfg0.maxRetries = MaxInt

Defaults ==
    [initialDelay |-> 100 * Millisecond, maxDelay |-> 30 * Second,
     multiplier |-> <<2, 1>>, jitterFactor |-> <<1, 10>>,
     maxRetries |-> MaxInt]

Fields == {"initialDelay", "maxDelay", "multiplier", "jitterFactor", "maxRetries"}

\* The parameters an option names.
Sets(opt) ==
    CASE opt[1] = "InitialDelay" -> {"initialDelay"}
      [] opt[1] = "MaxDelay" -> {"maxDelay"}
      [] opt[1] = "Multiplier" -> {"multiplier"}
      [] opt[1] = "JitterFactor" -> {"jitterFactor"}
      [] opt[1] = "MaxRetries" -> {"maxRetries"}
      [] opt[1] \in {"Constant", "Exponential"} -> Fields \ {"maxRetries"}

\* The value of parameter f after the options l: that of the last option
\* in l that names f, the default when none does.
RECURSIVE LastWins(_, _)
LastWins(l, f) ==
    IF l = <<>> THEN Defaults[f]
    ELSE IF f \in Sets(l[Len(l)]) THEN Apply(l[Len(l)], ZeroConfig)[f]
    ELSE LastWins(SubSeq(l, 1, Len(l) - 1), f)

\* C28: Iter applies its options in order on top of the Exponential
\* defaults: with no option the config is the defaults, and for every list
\* of options each parameter has the value the last option naming it gives,
\* the default when none names it.
C28_OptionsInOrderOverDefaults ==
    (api = "Iter" /\ pc = "range" /\ cfg0 = Defaults)
        => /\ NewConfig(<<>>) = Defaults
           /\ \A l \in OptionLists : \A f \in Fields :
                 NewConfig(l)[f] = LastWins(l, f)

C28_Witness ==
    /\ api = "Iter" /\ pc = "range" /\ cfg0 = Defaults
    /\ NewConfig(<<<<"InitialDelay", 3>>, <<"Constant", 0>>>>).initialDelay
           = 1 * Second
    /\ NewConfig(<<<<"Constant", 0>>, <<"InitialDelay", 3>>>>).initialDelay = 3

\* Errors an operation can hand to Cancel.
SomeErrors ==
    {ErrorString(i) : i \in 1..(MaxSteps + 1)}
    \cup {Canceled, DeadlineExceeded}
    \cup {[type |-> "CancelError", Err |-> ErrorString(i)] : i \in 1..2}

\* C29: an error marked by Cancel stops the driver and is not lost: when
\* an invocation returns Cancel(e) the call ends with that error, whose
\* text is the text of e and whose Unwrap is e; and for every non-nil
\* error e, Cancel(e) passes the driver's type assertion, has the text of e
\* and unwraps to e.
C29_CancelKeepsError ==
    /\ (Driver /\ MadeByCancel(lastErr))
          => /\ pc = "done" /\ exit = "fatal"
             /\ ret.err = lastErr
             /\ Unwrap(ret.err) = ErrorString(calls)
             /\ ErrorText(ret.err) = ErrorText(ErrorString(calls))
    /\ (Driver /\ pc = "done" /\ exit = "fatal") =>
          \A e \in SomeErrors :
              /\ IsCancelError(Cancel(e))
              /\ ErrorText(Cancel(e)) = ErrorText(e)
              /\ Unwrap(Cancel(e)) = e

C29_Witness ==
    /\ Driver /\ pc = "done" /\ exit = "fatal"
    /\ calls = 2
    /\ Unwrap(ret.err) = ErrorString(2)
    /\ ErrorText(ret.err) = ErrorText(ErrorString(2))

\* C30: with no options, the first delay is within 10% of 100ms and the
\* second within 10% of 200ms, so the second is greater than every value
\* the first can have.
C30_DefaultSecondDelayGreater ==
    cfg0 = Defaults =>
        /\ (pc = "yield" /\ yields = 1)
              => /\ currentDelay \in Yielded(cfg.initialDelay, cfg)
                 /\ currentDelay >= 90 * Millisecond
                 /\ currentDelay < 110 * Millisecond
        /\ (pc = "yield" /\ yields = 2)
              => /\ currentDelay >= 180 * Millisecond
                 /\ \A first \in Yielded(cfg.initialDelay, cfg) :
                       currentDelay > first

C30_Witness ==
    /\ api = "Iter" /\ cfg0 = Defaults
    /\ pc = "yield" /\ yields = 2
    /\ currentDelay = 180 * Millisecond

\* C31: without jitter the first delay yielded is the initial delay and
\* each later one is min(max_delay, trunc(d * multiplier)) of the delay d
\* yielded before it, max_delay being the cap the sequence runs with.
C31_StepRecurrence ==
    [][(pc = "loop" /\ pc' = "yield" /\ ~JitterOn(cfg))
          => currentDelay' =
                 IF yields = 0 THEN cfg0.initialDelay
                 ELSE Min(Raised(cfg0).maxDelay,
                          TruncDiv(currentDelay * cfg.multiplier[1],
                                   cfg.multiplier[2]))]_vars

\* C32: with a multiplier above 1 the base delay reaches the cap on every
\* sequence that is consumed without end.  The base delay of the next step
\* is a function of the base delay and the config alone, so a step that
\* leaves a base delay below the cap where it is would repeat for ever:
\* the claim requires that no step below the cap is such a step.
C32_BaseReachesCap ==
    [][(/\ pc = "resume" /\ pc' = "loop"
        /\ cfg.multiplier[1] > cfg.multiplier[2]
        /\ delay < cfg.maxDelay)
          => delay' # delay]_vars

\* The control state of the driver.  It is Attempting from an invocation of
\* fn until the next delay is in hand or the call returns: while fn is due
\* after a wait, and while the sequence is asked for the next delay after a
\* failure.  It is AwaitingDelay from the yield of a delay to the end of the
\* select.
ControlState ==
    CASE pc = "start" -> "Idle"
      [] pc \in {"case_timer", "iter", "range", "loop", "resume", "exhausted"}
            -> "Attempting"
      [] pc \in {"yield", "parked", "case_ctx"} -> "AwaitingDelay"
      [] pc = "done" /\ exit = "success" -> "Succeeded"
      [] pc = "done" /\ exit = "fatal" -> "FatalStopped"
      [] pc = "done" /\ exit = "cancelled" -> "CancelledStopped"
      [] pc = "done" /\ exit = "exhausted" -> "ExhaustedStopped"
      [] OTHER -> "none"

Transitions ==
    {<<"Idle", "Attempting">>,
     <<"Attempting", "Succeeded">>, <<"Attempting", "FatalStopped">>,
     <<"Attempting", "AwaitingDelay">>, <<"Attempting", "ExhaustedStopped">>,
     <<"AwaitingDelay", "Attempting">>, <<"AwaitingDelay", "CancelledStopped">>}

\* C33: the control state of the driver changes only along Idle ->
\* Attempting, Attempting -> Succeeded, FatalStopped, AwaitingDelay or
\* ExhaustedStopped, and AwaitingDelay -> Attempting or CancelledStopped
\* (the first invocation is one step here: it leaves Idle through
\* Attempting, and is the only way out of Idle).  After Succeeded or a
\* stopped state the operation is not invoked, no delay is requested and
\* the state stays.  ExhaustedStopped is reached only when exactly
\* maxRetries retries, each after a wait, have failed recoverably.
C33_DriverStateMachine ==
    /\ [](Driver => ControlState # "none")
    /\ [][Driver =>
            LET a == ControlState
                b == ControlState'
            IN  /\ \/ a = b
                   \/ <<a, b>> \in Transitions
                   \/ /\ a = "Idle" /\ calls' = calls + 1
                      /\ <<"Attempting", b>> \in Transitions
                /\ a = "Idle" => (b = "Idle" \/ calls' = calls + 1)
                /\ a \in {"Succeeded", "FatalStopped", "CancelledStopped",
                          "ExhaustedStopped"}
                      => b = a /\ calls' = calls /\ yields' = yields]_vars
    /\ [](Driver /\ ControlState = "ExhaustedStopped"
             => /\ calls - 1 = cfg.maxRetries
                /\ waits = cfg.maxRetries
                /\ yields = cfg.maxRetries
                /\ Recoverable(lastErr))

C33_Witness ==
    /\ api = "RetryWithContext" /\ ControlState = "CancelledStopped"
    /\ calls = 2 /\ waits = 1 /\ yields = 2

\* An error that is not a CancelError value but wraps one or points to one.
Indirect(e) == e.type \in {"wrapError", "*CancelError"}

\* C34: the driver stops with a fatal error only when the error the
\* operation returned is itself a CancelError value.  An error that wraps a
\* cancel error, or a pointer to a CancelError, is treated as any other
\* failure: the invocation that returned it does not end the call, the
\* next delay is requested, and the call ends with it only by exhaustion of
\* the retries or by the context.
C34_OnlyDirectCancelIsFatal ==
    /\ [](Driver =>
            /\ exit = "fatal" => lastErr.type = "CancelError"
            /\ lastErr.type = "CancelError" => (pc = "done" /\ exit = "fatal")
            /\ lastErr.type = "wrapError" => HasCancelInChain(lastErr)
            /\ Indirect(lastErr) =>
                  /\ exit \in {"", "exhausted", "cancelled"}
                  /\ exit = "exhausted" =>
                        (calls - 1 = cfg.maxRetries /\ ret.err = lastErr))
    /\ [][(Driver /\ calls' = calls + 1 /\ Indirect(lastErr'))
             => /\ pc' = (IF calls = 0 THEN "iter" ELSE "resume")
                /\ exit' = "" /\ ret' = ret]_vars

C34_Witness ==
    /\ Driver /\ pc = "case_timer"
    /\ calls = 2 /\ waits = 2
    /\ lastErr = Wrap(Cancel(ErrorString(2)))

\* C35: the value RetryWithContext returns is the one the most recent
\* invocation of the operation returned (the i-th invocation returns i),
\* with or without an error: on success, on a cancel error, on exhaustion
\* and when the context ends the call; it is never the zero value.
C35_ReturnsLastValue ==
    Driver =>
        /\ calls > 0 => result = calls
        /\ pc = "done" =>
              /\ calls > 0
              /\ ret.value = calls
              /\ ret.value # 0
              /\ exit \in {"success", "fatal", "cancelled", "exhausted"}

C35_Witness ==
    /\ api = "RetryWithContext" /\ pc = "done"
    /\ exit = "cancelled" /\ calls = 3
    /\ ret = Return(3, DeadlineExceeded)
    /\ lastErr = ErrorString(3)

\* C36: applying an Option writes to the config it is applied to and to
\* nothing else.  When one Option value is applied by two goroutines to
\* their own configs, in any interleaving (one after the other included),
\* no step writes a variable the two applications share, no step of one
\* goroutine changes the other's config, and each application leaves in
\* the fields the option names the value the option gives on its own.
C36_OptionWritesOnlyItsConfig ==
    /\ [][closure' = closure]_vars
    /\ [][\A i \in Goroutines :
             sessions'[Other(i)] = sessions[Other(i)]
                 => configs'[Other(i)] = configs[Other(i)]]_vars
    /\ [](\A i \in Goroutines :
             (sessions[i].kind = "Apply" /\ sessions[i].pc = "applied")
                 => configs[i] = Apply(sessions[i].options[1], StartConfig(i)))

\* C37: applied to any config Iter can build, an option leaves every field
\* it does not name as it was: a parameter option all fields but its own,
\* the presets Constant and Exponential the retry limit; a preset sets each
\* of its four fields whatever they were before; so MaxRetries(n) and a
\* preset give the same config in either order.
C37_OptionFrame ==
    (api = "Iter" /\ pc = "range") =>
        /\ \A opt \in Options : \A f \in Fields \ Sets(opt) :
              Apply(opt, cfg0)[f] = cfg0[f]
        /\ \A opt \in Options :
              opt[1] \notin Presets => Cardinality(Sets(opt)) = 1
        /\ \A p \in Presets :
              /\ Apply(<<p, 0>>, cfg0).maxRetries = cfg0.maxRetries
              /\ \A f \in Fields \ {"maxRetries"} :
                    Apply(<<p, 0>>, cfg0)[f] = Apply(<<p, 0>>, ZeroConfig)[f]
              /\ \A n \in MaxRetriesArgs :
                    /\ Apply(<<"MaxRetries", n>>, Apply(<<p, 0>>, cfg0))
                           = Apply(<<p, 0>>, Apply(<<"MaxRetries", n>>, cfg0))
                    /\ NewConfig(<<<<p, 0>>, <<"MaxRetries", n>>>>)
                           = NewConfig(<<<<"MaxRetries", n>>, <<p, 0>>>>)

C37_Witness ==
    /\ api = "Iter" /\ pc = "range"
    /\ cfg0 = [Constant(Defaults) EXCEPT !.maxRetries = 2]
    /\ cfg0 = NewConfig(<<<<"MaxRetries", 2>>, <<"Constant", 0>>>>)
    /\ cfg0 = NewConfig(<<<<"Constant", 0>>, <<"MaxRetries", 2>>>>)

\* C38: Cancel(nil) is an error that is not nil and that the driver takes
\* for a cancel error: an invocation that returns it ends the call at once
\* with that error and the invocation's value, as a fatal failure, never as
\* a success.
C38_CancelNilIsFatal ==
    Driver =>
        /\ lastErr = [type |-> "CancelError", Err |-> NilErr]
              => /\ pc = "done" /\ exit = "fatal"
                 /\ ret.err = lastErr /\ ret.err # NilErr
                 /\ ret.value = calls
        /\ exit = "success" => (lastErr = NilErr /\ ret.err = NilErr)
        /\ (pc = "done" /\ exit = "fatal")
              => /\ Cancel(NilErr) # NilErr
                 /\ IsCancelError(Cancel(NilErr))
                 /\ Unwrap(Cancel(NilErr)) = NilErr

C38_Witness ==
    /\ Driver /\ pc = "done" /\ exit = "fatal"
    /\ calls = 2 /\ waits = 1
    /\ ret = Return(2, [type |-> "CancelError", Err |-> NilErr])

====
